---- MODULE Spec2Model ----
(***************************************************************************)
(* Model of the Telegram video downloader bot (src/main.py,                *)
(* src/video_downloader.py): the format catalogue (filter and ranking),    *)
(* the two-stage compression of VideoDownloader.compress_video and the     *)
(* handlers of VideoDownloaderBot.                                         *)
(*                                                                         *)
(* Python values.  A dict is a function whose DOMAIN is the set of keys    *)
(* that are present, so d.get(k, default) is PyGet(d, k, default).  An     *)
(* optional integer (None or an int) is a sequence of length at most one:  *)
(* <<>> is None and <<n>> is the integer n.  A character string that the   *)
(* code inspects (format_note) is a sequence of one-character strings.     *)
(* A string that the code splits on "_" (callback data, format ids) is the *)
(* sequence of its "_"-free pieces.                                        *)
(***************************************************************************)
EXTENDS Integers, Sequences, FiniteSets, TLC

VARIABLES
    raw,            \* the formats the extraction engine reports for a URL
    info,           \* what get_video_info returned: [ok, formats]
    video_formats,  \* handle_url's ranked list (main.py:167-183)
    cat_pc,         \* position in the catalogue run
    valid_formats,  \* the filter loop's output for an already filtered list
    disk,           \* the files of the working directory: path -> size in bytes
    cpc,            \* position in the current compress_video call
    input_path,     \* compress_video's input_path
    max_size_bytes, \* compress_video's max_size_bytes
    duration,       \* the probed duration, in milliseconds
    target_bitrate, \* the target bitrates computed so far, one per stage (kbps)
    encodes,        \* how often the call has invoked the encode tool
    compressed,     \* what the call returned: None or <<path>>
    probes,         \* how often the call has invoked the probe tool
    returncode,     \* process.returncode of the encodes that returned, per stage
    compressed_size,\* compressed_size of those encodes: None if not measured
    log,            \* the error the core logged in the step taken last
    created,        \* the files the running handler's run has written and
                    \* not removed
    on_loop,        \* the filesystem calls that the step taken last made on
                    \* the event-loop thread, outside run_in_executor
    pc,             \* per message: where its handler stands
    outcome,        \* per message: the last text the bot showed for it
    keyboard,       \* per message: the callback data of the buttons shown
    user_data,      \* context.user_data: key -> url
    url,            \* the running handler's url
    format_sel,     \* the format_id the running handler gave download_video
    download_path,  \* the running handler's download_path
    sent,           \* size of the file the running handler opened for send_video
    ranking,        \* what the last handle_url ranked: [req, n, good], until
                    \* its download ends or another handler starts
    dpc,            \* position in a download_video call made on its own
    filename,       \* the file name the engine reported to that call
    found           \* what that call returned: None or <<path>>

catVars == <<raw, info, video_formats, cat_pc, valid_formats>>
cVars == <<disk, cpc, input_path, max_size_bytes, duration, target_bitrate,
           encodes, compressed, probes, returncode, compressed_size>>
gVars == <<log, created, on_loop>>
pVars == <<pc, outcome, keyboard, user_data, url, format_sel, download_path,
           sent, ranking>>
dVars == <<dpc, filename, found>>
vars == <<catVars, cVars, pVars, gVars, dVars>>

(***************************************************************************)
(* Bounds of the model.                                                    *)
(***************************************************************************)
MaxRaw == 3         \* longest raw format list of the filter runs
MaxRank == 4        \* longest raw format list of the ranking runs
MaxDurSteps == 16   \* probed durations: a grid of this many steps of 250 s
NumReq == 2         \* messages with a URL that the bot receives
MaxFormats == 2     \* longest format list the engine reports to a handler

(***************************************************************************)
(* Python helpers.                                                         *)
(***************************************************************************)
None == <<>>
Some(n) == <<n>>
PyGet(d, k, default) == IF k \in DOMAIN d THEN d[k] ELSE default

UpperCase == <<"A","B","C","D","E","F","G","H","I","J","K","L","M",
               "N","O","P","Q","R","S","T","U","V","W","X","Y","Z">>
LowerCase == <<"a","b","c","d","e","f","g","h","i","j","k","l","m",
               "n","o","p","q","r","s","t","u","v","w","x","y","z">>

\* str.lower() on one character
LowerChar(c) ==
    IF \E i \in DOMAIN UpperCase : UpperCase[i] = c
    THEN LowerCase[CHOOSE i \in DOMAIN UpperCase : UpperCase[i] = c]
    ELSE c

\* str.lower()
Lower(s) == [i \in DOMAIN s |-> LowerChar(s[i])]

\* needle in hay (substring test)
Contains(needle, hay) ==
    \E k \in 0..(Len(hay) - Len(needle)) :
        \A i \in 1..Len(needle) : hay[k + i] = needle[i]

Unavailable == <<"u","n","a","v","a","i","l","a","b","l","e">>

(***************************************************************************)
(* VideoDownloader._is_format_downloadable (video_downloader.py:58-82).    *)
(* The result is "keep" (True), "drop" (False) or "raise": height > 0      *)
(* with height None raises TypeError.                                      *)
(***************************************************************************)
MinHeight == 144

\* video_downloader.py:75, with a height of 0 counted as too low
HeightTooLowFromZero(height) == height[1] >= 0 /\ height[1] < MinHeight
\* video_downloader.py:75
HeightTooLow(height) == height[1] > 0 /\ height[1] < MinHeight

IsFormatDownloadable(fmt) ==
    LET format_note == PyGet(fmt, "format_note", <<>>)
        height == PyGet(fmt, "height", Some(0))
    IN  IF PyGet(fmt, "vcodec", "") = "none" THEN "drop"
        ELSE IF PyGet(fmt, "url", "") = "" THEN "drop"
        ELSE IF format_note # <<>> /\ Contains(Unavailable, Lower(format_note))
             THEN "drop"
        ELSE IF height = None THEN "raise"
        ELSE IF HeightTooLow(height) THEN "drop"
        ELSE IF PyGet(fmt, "filesize", None) = Some(0) THEN "drop"
        ELSE "keep"

(***************************************************************************)
(* VideoDownloader.get_video_info (video_downloader.py:33-56): the loop    *)
(* over info['formats']; an exception inside extract_info is caught and    *)
(* None is returned.                                                       *)
(***************************************************************************)
\* a filter that also drops the first format it keeps
FilterFormatsButFirst(formats) ==
    LET kept == SelectSeq(formats, LAMBDA f : IsFormatDownloadable(f) = "keep")
    IN  IF kept = <<>> THEN kept ELSE Tail(kept)
FilterFormats(formats) ==
    SelectSeq(formats, LAMBDA f : IsFormatDownloadable(f) = "keep")

\* an except clause that returns an info without formats instead of None
EmptyInfo == [ok |-> TRUE, formats |-> <<>>]
\* lines 54-56: None
NoInfo == [ok |-> FALSE, formats |-> <<>>]

\* the loop at lines 42-44 raises
FilterRaises(formats) ==
    \E i \in DOMAIN formats : IsFormatDownloadable(formats[i]) = "raise"

GetVideoInfo(formats) ==
    IF FilterRaises(formats)
    THEN NoInfo
    ELSE [ok |-> TRUE, formats |-> FilterFormats(formats)]

(***************************************************************************)
(* handle_url's ranking (main.py:164-186).                                 *)
(***************************************************************************)
HeightKey(f) == PyGet(f, "height", Some(0))[1]

\* list.sort(key=..., reverse=True): a stable sort, larger keys first.
RECURSIVE SortByHeightDesc(_)
\* an unstable insertion: f goes before the formats of its own height
InsertDescBeforeEqual(sorted, f) ==
    LET after == {i \in DOMAIN sorted : HeightKey(sorted[i]) > HeightKey(f)}
        n == Cardinality(after)
    IN  SubSeq(sorted, 1, n) \o <<f>> \o SubSeq(sorted, n + 1, Len(sorted))
InsertDesc(sorted, f) ==
    LET after == {i \in DOMAIN sorted : HeightKey(sorted[i]) >= HeightKey(f)}
        n == Cardinality(after)
    IN  SubSeq(sorted, 1, n) \o <<f>> \o SubSeq(sorted, n + 1, Len(sorted))
SortByHeightDesc(s) ==
    IF s = <<>> THEN <<>>
    ELSE InsertDesc(SortByHeightDesc(SubSeq(s, 1, Len(s) - 1)), s[Len(s)])

VideoFormats(formats) ==
    SelectSeq(formats,
              LAMBDA f : PyGet(f, "vcodec", "") # "none" /\ PyGet(f, "url", "") # "")

GoodHeight == 360
GoodFormats(ranked) == SelectSeq(ranked, LAMBDA f : HeightKey(f) >= GoodHeight)

(***************************************************************************)
(* The formats of the catalogue runs.                                      *)
(***************************************************************************)
AbsentStr == "<absent>"
AbsentNote == <<"<absent>">>
AbsentInt == <<0, 0>>

MkFormat(v, u, n, h, s) ==
    LET keys == {"vcodec"}
                  \cup (IF u = AbsentStr THEN {} ELSE {"url"})
                  \cup (IF n = AbsentNote THEN {} ELSE {"format_note"})
                  \cup (IF h = AbsentInt THEN {} ELSE {"height"})
                  \cup (IF s = AbsentInt THEN {} ELSE {"filesize"})
    IN  [k \in keys |->
            CASE k = "vcodec" -> v
              [] k = "url" -> u
              [] k = "format_note" -> n
              [] k = "height" -> h
              [] k = "filesize" -> s]

NoteMedium == <<"m","e","d","i","u","m">>
NoteUnavailable == <<"V","i","d","e","o"," ","U","N","A","v","a","i","l","a","b","l","e">>

\* every combination of the attributes the filter reads
FilterUniverse ==
    { MkFormat(v, u, n, h, s) :
        v \in {"none", "avc1"},
        u \in {AbsentStr, "https://cdn/v"},
        n \in {AbsentNote, NoteMedium, NoteUnavailable},
        h \in {AbsentInt, None, Some(0), Some(1), Some(143), Some(144)},
        s \in {AbsentInt, Some(0), Some(7)} }

\* a kept format, an audio-only format and one whose height is None
Companions ==
    { MkFormat("avc1", "https://cdn/v", NoteMedium, Some(144), Some(7)),
      MkFormat("none", "https://cdn/v", AbsentNote, AbsentInt, AbsentInt),
      MkFormat("avc1", "https://cdn/v", AbsentNote, None, AbsentInt) }

\* formats that differ in what the ranking reads
RankUniverse ==
    { MkFormat("avc1", "https://cdn/v", AbsentNote, h, AbsentInt) :
        h \in {AbsentInt, Some(0), Some(144), Some(360), Some(720)} }
    \cup { MkFormat("none", "https://cdn/v", AbsentNote, AbsentInt, AbsentInt) }

\* the engine gives every format of a list its own format_id: "a", "b_2",
\* "c", "d_x", ... (ids such as "dash_sd_src" hold the character "_")
FormatIds == << <<"a">>, <<"b", "2">>, <<"c">>, <<"d", "x">>,
                <<"e">>, <<"f">>, <<"g">>, <<"h">> >>
WithId(f, id) ==
    [k \in DOMAIN f \cup {"format_id"} |-> IF k = "format_id" THEN id ELSE f[k]]
WithIds(l) == [i \in 1..Len(l) |-> WithId(l[i], FormatIds[i])]

ListsOf(U, max) == { WithIds(l) : l \in UNION { [1..n -> U] : n \in 0..max } }

\* l with f inserted at position i
InsertAt(l, i, f) == SubSeq(l, 1, i - 1) \o <<f>> \o SubSeq(l, i, Len(l))

\* the filter runs: one format of the list ranges over every attribute
\* combination, the others over the companions
FilterLists(max) ==
    { <<>> } \cup
    UNION { { WithIds(InsertAt(l, i, f)) : i \in 1..(Len(l) + 1), f \in FilterUniverse } :
            l \in UNION { [1..n -> Companions] : n \in 0..(max - 1) } }
RankLists(max) == ListsOf(RankUniverse, max)

(***************************************************************************)
(* The working directory.  disk is a function from the paths of the files  *)
(* that exist to their sizes.  A path is <<stem, tail>>: the part before   *)
(* the last "." and the rest, so input_path.rsplit('.', 1)[0] is the stem. *)
(***************************************************************************)
Exists(d, p) == p \in DOMAIN d
GetSize(d, p) == d[p]
WriteFile(d, p, size) == [q \in DOMAIN d \cup {p} |-> IF q = p THEN size ELSE d[q]]
\* os.remove that removes nothing
KeepFile(d, p) == d
RemoveFile(d, p) == [q \in DOMAIN d \ {p} |-> d[q]]
NoFiles == [q \in {} |-> 0]

Stem(p) == p[1]
\* an encode that writes over its input
CompressedPathInPlace(p) == p
CompressedPath(p) == <<Stem(p), "_compressed.mp4">>
AggressivePath(p) == <<Stem(p), "_compressed_aggressive.mp4">>

(***************************************************************************)
(* The target bitrates (video_downloader.py:160 and :220):                 *)
(*     int((max_size_bytes * 0.8 * 8) / duration / 1000)                   *)
(* with the duration in milliseconds, duration = ms / 1000, this is        *)
(* max_size_bytes * tenths * 8 / (10 * ms), truncated; 8/10 is reduced to  *)
(* 4/5 to stay within 32-bit integers.  The floating-point evaluation      *)
(* agrees with this quotient for the ceilings of the model and every       *)
(* duration of whole milliseconds up to 6000 s.                            *)
(***************************************************************************)
Stage1Tenths == 8
Stage2Tenths == 6
MinBitrate1 == 100
MinBitrate2 == 50

\* a floor of 50 kbps in stage 1, as in stage 2
MinBitrate1AsStage2 == MinBitrate2
Stage1Floor == MinBitrate1

\* round() instead of int()
TargetBitrateRounded(max, tenths, ms) ==
    (max * tenths * 4 + (ms * 5) \div 2) \div (ms * 5)
TargetBitrate(max, tenths, ms) == (max * tenths * 4) \div (ms * 5)

Stage1Bitrate(max, ms) == TargetBitrate(max, Stage1Tenths, ms)
\* stage 2 at 30% of the ceiling
AggressiveBitrateAtThirtyPercent(max, ms) == TargetBitrate(max, 3, ms)
\* stage 2 with the factor of stage 1
AggressiveBitrateAsStage1(max, ms) == TargetBitrate(max, Stage1Tenths, ms)
AggressiveBitrate(max, ms) == TargetBitrate(max, Stage2Tenths, ms)

(***************************************************************************)
(* What the external tools can do.                                         *)
(***************************************************************************)
\* _get_video_duration returns None (ffprobe failed, output unparseable or
\* without a duration) or the duration; 0 stands for a reported 0.0.
Durations ==
    {0, 1, 63999, 64000, 64001, 120000, 3200000, 3200001, 3355443, 3355444,
     4000000, 5033164, 5033165}
    \cup { k * 250000 : k \in 1..MaxDurSteps }
ProbeResults == {None} \cup { Some(d) : d \in Durations }
\* the probe results of the bot's runs, whose ceiling is always MAX_SIZE
PipelineDurations == {0, 120000, 4000000}
PipelineProbeResults == {None} \cup { Some(d) : d \in PipelineDurations }

\* ffmpeg exits with a return code and has written its output file, with
\* some size, or not (a failing run may leave a partial file behind).
EncodeSizes(max) == {max, max + 1}
EncodeResults(max) ==
    [returncode : {0, 1}, wrote : {None} \cup { Some(n) : n \in EncodeSizes(max) }]

AfterEncode(d, out, res) ==
    IF res.wrote = None THEN d ELSE WriteFile(d, out, res.wrote[1])

(***************************************************************************)
(* VideoDownloader.compress_video and _compress_aggressively               *)
(* (video_downloader.py:146-270), one action per await.                    *)
(***************************************************************************)
Return(path) ==
    /\ compressed' = path
    /\ cpc' = "ret"

\* lines 200 and 257: compressed_size <= max_size_bytes, with < for <=
FitsStrictly(size, max) == size < max
\* lines 200 and 257
Fits(size, max) == size <= max

\* lines 197 and 255, without the test of the return code
OutputExists(res, d, out) == Exists(d, out)
\* lines 197 and 255: process.returncode == 0 and os.path.exists(output_path)
EncodeSucceeded(res, d, out) == res.returncode = 0 /\ Exists(d, out)

\* what an encode leaves of the files the run has written
CreatedAfterEncode(out, res) ==
    IF res.wrote = None THEN created ELSE created \cup {out}

\* lines 149-154: the input must exist; then the probe is started
\* lines 197-206 and 255-262: the calls of os.path.exists, os.path.getsize
\* and os.remove that follow the await of run_in_executor, in the coroutine
ChecksAfterEncode(rc, size, max) ==
    IF rc # 0 THEN {}
    ELSE IF size = None THEN {"exists"}
    ELSE IF size[1] <= max THEN {"exists", "getsize"}
    ELSE {"exists", "getsize", "remove"}

CompressCall ==
    /\ cpc = "call"
    /\ IF ~Exists(disk, input_path)
       THEN /\ Return(None)
            /\ log' = "input_missing"
            /\ UNCHANGED probes
       ELSE /\ cpc' = "probe"
            /\ probes' = probes + 1
            /\ log' = ""
            /\ UNCHANGED compressed
    /\ UNCHANGED <<disk, input_path, max_size_bytes, duration, target_bitrate, encodes>>
    /\ UNCHANGED <<returncode, compressed_size, created>>
    /\ UNCHANGED <<catVars, dVars, pVars>>
    /\ on_loop' = {"exists"}

\* a failed probe is tried once more
ProbeDoneRetry(results) ==
    /\ cpc = "probe"
    /\ \E res \in results :
        IF res = None \/ res = Some(0)
        THEN /\ IF probes < 2
                THEN /\ probes' = probes + 1
                     /\ log' = ""
                     /\ UNCHANGED <<cpc, compressed>>
                ELSE /\ Return(None)
                     /\ log' = "no_duration"
                     /\ UNCHANGED probes
             /\ UNCHANGED <<duration, target_bitrate, encodes>>
        ELSE /\ duration' = res[1]
             /\ target_bitrate' = <<Stage1Bitrate(max_size_bytes, res[1])>>
             /\ UNCHANGED probes
             /\ IF Stage1Bitrate(max_size_bytes, res[1]) < Stage1Floor
                THEN /\ Return(None)
                     /\ log' = "bitrate_too_low"
                     /\ UNCHANGED encodes
                ELSE /\ encodes' = encodes + 1
                     /\ cpc' = "encode1"
                     /\ log' = ""
                     /\ UNCHANGED compressed
    /\ UNCHANGED <<disk, input_path, max_size_bytes>>
    /\ UNCHANGED <<returncode, compressed_size, created>>
    /\ UNCHANGED <<catVars, dVars, pVars>>
    /\ on_loop' = {}

\* lines 155-195: the probe returns; the stage-1 target is computed and
\* the stage-1 encode is started unless the target is below the floor
ProbeDone(results) ==
    /\ cpc = "probe"
    /\ \E res \in results :
        IF res = None \/ res = Some(0)
        THEN /\ Return(None)
             /\ log' = "no_duration"
             /\ UNCHANGED <<duration, target_bitrate, encodes>>
        ELSE /\ duration' = res[1]
             /\ target_bitrate' = <<Stage1Bitrate(max_size_bytes, res[1])>>
             /\ IF Stage1Bitrate(max_size_bytes, res[1]) < Stage1Floor
                THEN /\ Return(None)
                     /\ log' = "bitrate_too_low"
                     /\ UNCHANGED encodes
                ELSE /\ encodes' = encodes + 1
                     /\ cpc' = "encode1"
                     /\ log' = ""
                     /\ UNCHANGED compressed
    /\ UNCHANGED <<disk, input_path, max_size_bytes>>
    /\ UNCHANGED <<probes, returncode, compressed_size, created>>
    /\ UNCHANGED <<catVars, dVars, pVars>>
    /\ on_loop' = {}

\* lines 197-210 and 219-253: the stage-1 encode returns
Encode1Done ==
    /\ cpc = "encode1"
    /\ \E res \in EncodeResults(max_size_bytes) :
        LET out == CompressedPath(input_path)
            d1 == AfterEncode(disk, out, res)
            c1 == CreatedAfterEncode(out, res)
        IN  /\ returncode' = Append(returncode, res.returncode)
            /\ IF EncodeSucceeded(res, d1, out)
               THEN /\ compressed_size' = Append(compressed_size, Some(GetSize(d1, out)))
                    /\ IF Fits(GetSize(d1, out), max_size_bytes)
                       THEN /\ disk' = d1
                            /\ created' = c1
                            /\ Return(Some(out))
                            /\ log' = ""
                            /\ UNCHANGED <<target_bitrate, encodes>>
                       ELSE /\ disk' = RemoveFile(d1, out)
                            /\ created' = c1 \ {out}
                            /\ target_bitrate' =
                                  Append(target_bitrate,
                                         AggressiveBitrate(max_size_bytes, duration))
                            /\ IF AggressiveBitrate(max_size_bytes, duration) < MinBitrate2
                               THEN /\ Return(None)
                                    /\ log' = "cannot_compress_further"
                                    /\ UNCHANGED encodes
                               ELSE /\ encodes' = encodes + 1
                                    /\ cpc' = "encode2"
                                    /\ log' = ""
                                    /\ UNCHANGED compressed
               ELSE /\ compressed_size' = Append(compressed_size, None)
                    /\ disk' = d1
                    /\ created' = c1
                    /\ Return(None)
                    /\ log' = "ffmpeg_failed"
                    /\ UNCHANGED <<target_bitrate, encodes>>
    /\ UNCHANGED <<input_path, max_size_bytes, duration, probes>>
    /\ UNCHANGED <<catVars, dVars, pVars>>
    /\ on_loop' = ChecksAfterEncode(returncode'[Len(returncode')], compressed_size'[Len(compressed_size')], max_size_bytes)

\* an oversized stage-2 output is removed and the encode is tried again
Encode2DoneRetry ==
    /\ cpc = "encode2"
    /\ \E res \in EncodeResults(max_size_bytes) :
        LET out == AggressivePath(input_path)
            d1 == AfterEncode(disk, out, res)
        IN  IF res.returncode = 0 /\ Exists(d1, out)
            THEN IF GetSize(d1, out) <= max_size_bytes
                 THEN /\ disk' = d1
                      /\ Return(Some(out))
                      /\ UNCHANGED encodes
                 ELSE /\ disk' = RemoveFile(d1, out)
                      /\ encodes' = encodes + 1
                      /\ UNCHANGED <<cpc, compressed>>
            ELSE /\ disk' = d1
                 /\ Return(None)
                 /\ UNCHANGED encodes
    /\ UNCHANGED <<input_path, max_size_bytes, duration, target_bitrate>>
    /\ UNCHANGED <<probes, returncode, compressed_size, log, created>>
    /\ UNCHANGED <<catVars, dVars, pVars>>
    /\ on_loop' = ChecksAfterEncode(returncode'[Len(returncode')], compressed_size'[Len(compressed_size')], max_size_bytes)

\* lines 255-266: the stage-2 encode returns
Encode2Done ==
    /\ cpc = "encode2"
    /\ \E res \in EncodeResults(max_size_bytes) :
        LET out == AggressivePath(input_path)
            d1 == AfterEncode(disk, out, res)
            c1 == CreatedAfterEncode(out, res)
        IN  /\ returncode' = Append(returncode, res.returncode)
            /\ IF EncodeSucceeded(res, d1, out)
               THEN /\ compressed_size' = Append(compressed_size, Some(GetSize(d1, out)))
                    /\ IF Fits(GetSize(d1, out), max_size_bytes)
                       THEN /\ disk' = d1
                            /\ created' = c1
                            /\ Return(Some(out))
                            /\ log' = ""
                       ELSE /\ disk' = RemoveFile(d1, out)
                            /\ created' = c1 \ {out}
                            /\ Return(None)
                            /\ log' = "aggressive_too_large"
               ELSE /\ compressed_size' = Append(compressed_size, None)
                    /\ disk' = d1
                    /\ created' = c1
                    /\ Return(None)
                    /\ log' = "aggressive_ffmpeg_failed"
    /\ UNCHANGED <<input_path, max_size_bytes, duration, target_bitrate, encodes, probes>>
    /\ UNCHANGED <<catVars, dVars, pVars>>
    /\ on_loop' = ChecksAfterEncode(returncode'[Len(returncode')], compressed_size'[Len(compressed_size')], max_size_bytes)

CompressNext(results) ==
    CompressCall \/ ProbeDone(results) \/ Encode1Done \/ Encode2Done

\* no compress_video call is running
CompressIdle ==
    /\ cpc = "idle"
    /\ input_path = <<"", "">>
    /\ max_size_bytes = 0
    /\ duration = 0
    /\ target_bitrate = <<>>
    /\ encodes = 0
    /\ compressed = None
    /\ probes = 0
    /\ returncode = <<>>
    /\ compressed_size = <<>>

(***************************************************************************)
(* The bot (main.py).  Message r has message_id r.  A message text is      *)
(* what urlparse makes of it, with the video the URL stands for.           *)
(***************************************************************************)
Reqs == 1..NumReq
MessageId(r) == ToString(r)

\* every message asks for the same video: the runs share their file names
Titles == {"a"}
Texts ==
    { [scheme |-> "", netloc |-> "", video |-> ""] } \cup
    { [scheme |-> "https", netloc |-> "site", video |-> t] : t \in Titles }
NoText == [scheme |-> "", netloc |-> "", video |-> "-"]

\* utils.is_valid_url (utils.py:28-34)
IsValidUrl(u) == u.scheme # "" /\ u.netloc # ""

MAX_SIZE == 50 * 1024 * 1024

\* main.py:303, with the test off by one
NeedsCompressionOffByOne(file_size) == file_size > MAX_SIZE + 1
\* main.py:303
NeedsCompression(file_size) == file_size > MAX_SIZE

MaxButtons == 5

\* main.py:204-213: callback_data f"download_{format_id}_{message_id}"
CallbackData(format_id, message_id) == <<"download">> \o format_id \o <<message_id>>

\* main.py:190-213: a button per good format, at most five, and "best"
Keyboard(good_formats, message_id) ==
    LET n == IF Len(good_formats) < MaxButtons THEN Len(good_formats) ELSE MaxButtons
    IN  [i \in 1..n |-> CallbackData(good_formats[i].format_id, message_id)]
        \o << CallbackData(<<"best">>, message_id) >>

UrlKey(message_id) == <<"url", message_id>>

(***************************************************************************)
(* What the extraction engine can do.                                      *)
(***************************************************************************)
PipelineUniverse ==
    { MkFormat("avc1", "https://cdn/v", AbsentNote, h, AbsentInt) :
        h \in {AbsentInt, Some(480), Some(720)} }
    \cup { MkFormat("none", "https://cdn/v", AbsentNote, AbsentInt, AbsentInt) }

SevenGood ==
    WithIds([i \in 1..7 |->
        MkFormat("avc1", "https://cdn/v", AbsentNote,
                 IF i \in {2, 5} THEN Some(720) ELSE Some(480), AbsentInt)])

\* extract_info(download=False) raises, or reports formats and a duration
\* that is absent, an int or a float
ExtractResults ==
    [raises : {TRUE}, formats : {<<>>}, duration : {"absent"}] \cup
    [raises : {FALSE},
     formats : ListsOf(PipelineUniverse, MaxFormats) \cup {SevenGood},
     duration : {"absent", "int", "float"}]

\* extract_info(download=True) raises, or reports a file name; the file has
\* been written under the reported name or, converted, under another one,
\* or not at all
ReportedTails == {".mp4", ".webm"}
WrittenTails == {".mp4", ".mkv"}
DownloadSizes == {MAX_SIZE, MAX_SIZE + 1}
DownloadResults ==
    [raises : {TRUE}, reported : {".mp4"}, wrote : {None}, tail : {".mp4"}] \cup
    [raises : {FALSE}, reported : ReportedTails,
     wrote : {None} \cup { Some(n) : n \in DownloadSizes }, tail : WrittenTails]

FallbackTails == <<".mp4", ".mkv", ".webm", ".avi", ".mov">>

\* the fallback extensions tried from the last to the first
ResolveDownloadedLastHit(d, reported) ==
    IF Exists(d, reported) THEN Some(reported)
    ELSE LET hits == {i \in DOMAIN FallbackTails :
                        Exists(d, <<Stem(reported), FallbackTails[i]>>)}
         IN  IF hits = {} THEN None
             ELSE LET last == CHOOSE i \in hits : \A k \in hits : i >= k
                  IN  Some(<<Stem(reported), FallbackTails[last]>>)

\* video_downloader.py:128-140: the reported file, else the first of the
\* fallback extensions that exists, else None
ResolveDownloaded(d, reported) ==
    IF Exists(d, reported) THEN Some(reported)
    ELSE LET hits == {i \in DOMAIN FallbackTails :
                        Exists(d, <<Stem(reported), FallbackTails[i]>>)}
         IN  IF hits = {} THEN None
             ELSE LET first == CHOOSE i \in hits : \A k \in hits : i <= k
                  IN  Some(<<Stem(reported), FallbackTails[first]>>)

(***************************************************************************)
(* The handlers, one action per await on the worker pool or the chat API.  *)
(* Application.builder().token(...).build() (main.py:374) leaves           *)
(* concurrent_updates at its default and the handlers are registered       *)
(* blocking (main.py:377-381), so the application awaits a handler before  *)
(* it takes the next update: a handler starts only when none is running.   *)
(* url, format_sel, download_path and sent are the locals of the running   *)
(* handler; they are cleared when it returns.                              *)
(***************************************************************************)
NoHandlerRunning == \A q \in Reqs : pc[q] \in {"new", "choice", "done"}

NoRanking == [req |-> 0, n |-> 0, good |-> <<>>]

\* a handler that shows the text `how` and does not return
FinishNever(r, how) ==
    /\ outcome' = [outcome EXCEPT ![r] = how]
    /\ UNCHANGED <<pc, url, format_sel, download_path, sent>>

\* the handler of message r returns, having shown the text `how`
Finish(r, how) ==
    /\ pc' = [pc EXCEPT ![r] = "done"]
    /\ outcome' = [outcome EXCEPT ![r] = how]
    /\ url' = NoText
    /\ format_sel' = None
    /\ download_path' = None
    /\ sent' = None

\* main.py:280-289: the download is started on the worker pool
StartDownload(r, u, format_id) ==
    /\ pc' = [pc EXCEPT ![r] = "downloading"]
    /\ outcome' = [outcome EXCEPT ![r] = "downloading"]
    /\ url' = u
    /\ format_sel' = format_id
    /\ UNCHANGED <<download_path, sent>>

\* main.py:135-153: handle_url up to the await of get_video_info
SendUrl(r) ==
    /\ pc[r] = "new"
    /\ \A q \in Reqs : q < r => pc[q] # "new"
    /\ NoHandlerRunning
    /\ \E u \in Texts :
        IF ~IsValidUrl(u)
        THEN Finish(r, "invalid_url")
        ELSE /\ pc' = [pc EXCEPT ![r] = "extracting"]
             /\ outcome' = [outcome EXCEPT ![r] = "processing"]
             /\ url' = u
             /\ UNCHANGED <<format_sel, download_path, sent>>
    /\ ranking' = NoRanking
    /\ log' = ""
    /\ UNCHANGED <<keyboard, user_data, created>>
    /\ UNCHANGED <<catVars, dVars, cVars>>
    /\ on_loop' = {}

\* an empty list is taken for a list with formats
NoFormatsNever(formats) == FALSE
\* main.py:169: if not video_formats
NoFormats(formats) == formats = <<>>

\* main.py:155-249: get_video_info has returned
ExtractDone(r) ==
    /\ pc[r] = "extracting"
    /\ \E res \in ExtractResults :
        LET video_info == IF res.raises THEN NoInfo ELSE GetVideoInfo(res.formats)
            formats == VideoFormats(video_info.formats)
            ranked == SortByHeightDesc(formats)
            good_formats == GoodFormats(ranked)
        IN  /\ log' = IF res.raises \/ FilterRaises(res.formats)
                      THEN "extract_error" ELSE ""
            /\ IF ~video_info.ok
               THEN /\ Finish(r, "no_info")
                    /\ UNCHANGED <<keyboard, user_data, ranking>>
               ELSE IF NoFormats(formats)
               THEN /\ Finish(r, "no_formats")
                    /\ ranking' = [req |-> r, n |-> 0, good |-> <<>>]
                    /\ UNCHANGED <<keyboard, user_data>>
               ELSE
                    /\ ranking' =
                           [req |-> r, n |-> Len(ranked),
                            good |-> [i \in DOMAIN good_formats |-> good_formats[i].format_id]]
                    /\ IF Len(good_formats) > 1
                       THEN IF res.duration = "float"
                            \* main.py:223: {duration%60:02d} raises ValueError
                            \* for a float; the except clause reports it
                            THEN /\ Finish(r, "processing_failed")
                                 /\ UNCHANGED <<keyboard, user_data>>
                            ELSE /\ keyboard' = [keyboard EXCEPT ![r] =
                                                   Keyboard(good_formats, MessageId(r))]
                                 /\ user_data' = WriteFile(user_data, UrlKey(MessageId(r)), url)
                                 /\ pc' = [pc EXCEPT ![r] = "choice"]
                                 /\ outcome' = [outcome EXCEPT ![r] = "select_quality"]
                                 /\ url' = NoText
                                 /\ UNCHANGED <<format_sel, download_path, sent>>
                       ELSE /\ StartDownload(r, url, <<"best">>)
                            /\ UNCHANGED <<keyboard, user_data>>
    /\ UNCHANGED created
    /\ UNCHANGED <<catVars, dVars, cVars>>
    /\ on_loop' = {}

\* a handler that takes the stored URL out of user_data (pop, not get)
PressButtonPops(r, b) ==
    /\ pc[r] = "choice"
    /\ NoHandlerRunning
    /\ b \in DOMAIN keyboard[r]
    /\ LET parts == keyboard[r][b]
       IN  IF Len(parts) < 3
           THEN Finish(r, "invalid_selection")
           ELSE LET format_id == <<parts[2]>>
                    message_id == parts[3]
                IN  IF ~Exists(user_data, UrlKey(message_id))
                    THEN Finish(r, "session_expired")
                    ELSE StartDownload(r, user_data[UrlKey(message_id)], format_id)
    /\ keyboard' = [keyboard EXCEPT ![r] = <<>>]
    /\ ranking' = NoRanking
    /\ log' = ""
    /\ user_data' = IF Len(keyboard[r][b]) < 3 THEN user_data
                     ELSE RemoveFile(user_data, UrlKey(keyboard[r][b][3]))
    /\ UNCHANGED created
    /\ UNCHANGED <<catVars, dVars, cVars>>
    /\ on_loop' = {}

\* main.py:251-274: handle_quality_selection for button b of message r
PressButton(r, b) ==
    /\ pc[r] = "choice"
    /\ NoHandlerRunning
    /\ b \in DOMAIN keyboard[r]
    /\ LET parts == keyboard[r][b]
       IN  IF Len(parts) < 3
           THEN Finish(r, "invalid_selection")
           ELSE LET format_id == <<parts[2]>>
                    message_id == parts[3]
                IN  IF ~Exists(user_data, UrlKey(message_id))
                    THEN Finish(r, "session_expired")
                    ELSE StartDownload(r, user_data[UrlKey(message_id)], format_id)
    /\ keyboard' = [keyboard EXCEPT ![r] = <<>>]
    /\ ranking' = NoRanking
    /\ log' = ""
    /\ UNCHANGED <<user_data, created>>
    /\ UNCHANGED <<catVars, dVars, cVars>>
    /\ on_loop' = {}

\* main.py:291-313 after video_downloader.py:126-144: the download returns
DownloadDone(r) ==
    /\ pc[r] = "downloading"
    /\ \E res \in DownloadResults :
        LET title == url.video
            d1 == IF res.wrote = None THEN disk
                  ELSE WriteFile(disk, <<title, res.tail>>, res.wrote[1])
            path == IF res.raises THEN None
                    ELSE ResolveDownloaded(d1, <<title, res.reported>>)
        IN  /\ disk' = d1
            /\ log' = IF res.raises THEN "download_error"
                      ELSE IF path = None THEN "file_not_found" ELSE ""
            /\ created' = IF path = None \/ res.wrote = None THEN {}
                          ELSE {<<title, res.tail>>}
            /\ IF path = None \/ ~Exists(d1, path[1])
               THEN /\ Finish(r, "download_failed")
                    /\ UNCHANGED <<cpc, input_path, max_size_bytes>>
               ELSE /\ download_path' = path
                    /\ UNCHANGED <<url, format_sel, sent>>
                    /\ IF NeedsCompression(GetSize(d1, path[1]))
                       THEN /\ pc' = [pc EXCEPT ![r] = "compressing"]
                            /\ outcome' = [outcome EXCEPT ![r] = "compressing"]
                            /\ cpc' = "call"
                            /\ input_path' = path[1]
                            /\ max_size_bytes' = MAX_SIZE
                       ELSE /\ pc' = [pc EXCEPT ![r] = "announcing"]
                            /\ UNCHANGED outcome
                            /\ UNCHANGED <<cpc, input_path, max_size_bytes>>
    /\ UNCHANGED <<duration, target_bitrate, encodes, compressed>>
    /\ UNCHANGED <<probes, returncode, compressed_size>>
    /\ ranking' = IF pc'[r] = "done" THEN NoRanking ELSE ranking
    /\ UNCHANGED <<keyboard, user_data>>
    /\ UNCHANGED <<catVars, dVars>>
    /\ on_loop' = IF log' = "download_error" THEN {}
                  ELSE IF log' = "file_not_found" THEN {"exists"}
                  ELSE {"exists", "getsize"}

\* a rejected compression is followed by sending the download itself
CompressReturnedKeepsOriginal(r) ==
    /\ pc[r] = "compressing"
    /\ cpc = "ret"
    /\ IF compressed # None /\ Exists(disk, compressed[1])
       THEN /\ download_path' = compressed
            /\ pc' = [pc EXCEPT ![r] = "announcing"]
            /\ UNCHANGED <<outcome, url, format_sel, sent>>
       ELSE /\ pc' = [pc EXCEPT ![r] = "announcing"]
            /\ UNCHANGED <<download_path, outcome, url, format_sel, sent>>
    /\ cpc' = "idle"
    /\ input_path' = <<"", "">>
    /\ max_size_bytes' = 0
    /\ duration' = 0
    /\ target_bitrate' = <<>>
    /\ encodes' = 0
    /\ compressed' = None
    /\ probes' = 0
    /\ returncode' = <<>>
    /\ compressed_size' = <<>>
    /\ log' = ""
    /\ created' = created
    /\ ranking' = ranking
    /\ UNCHANGED <<disk, keyboard, user_data>>
    /\ UNCHANGED <<catVars, dVars>>
    /\ on_loop' = IF compressed # None THEN {"exists"} ELSE {}

\* main.py:315-323: compress_video has returned
CompressReturned(r) ==
    /\ pc[r] = "compressing"
    /\ cpc = "ret"
    /\ IF compressed # None /\ Exists(disk, compressed[1])
       THEN /\ download_path' = compressed
            /\ pc' = [pc EXCEPT ![r] = "announcing"]
            /\ UNCHANGED <<outcome, url, format_sel, sent>>
       ELSE Finish(r, "compression_failed")
    /\ cpc' = "idle"
    /\ input_path' = <<"", "">>
    /\ max_size_bytes' = 0
    /\ duration' = 0
    /\ target_bitrate' = <<>>
    /\ encodes' = 0
    /\ compressed' = None
    /\ probes' = 0
    /\ returncode' = <<>>
    /\ compressed_size' = <<>>
    /\ log' = ""
    /\ created' = IF pc'[r] = "done" THEN {} ELSE created
    /\ ranking' = IF pc'[r] = "done" THEN NoRanking ELSE ranking
    /\ UNCHANGED <<disk, keyboard, user_data>>
    /\ UNCHANGED <<catVars, dVars>>
    /\ on_loop' = IF compressed # None THEN {"exists"} ELSE {}

\* main.py:326-335: the status text is edited, the file opened and handed
\* to send_video
AnnounceDone(r) ==
    /\ pc[r] = "announcing"
    /\ IF ~Exists(disk, download_path[1])
       THEN Finish(r, "send_failed")
       ELSE /\ sent' = Some(GetSize(disk, download_path[1]))
            /\ pc' = [pc EXCEPT ![r] = "sending"]
            /\ outcome' = [outcome EXCEPT ![r] = "uploading"]
            /\ UNCHANGED <<url, format_sel, download_path>>
    /\ ranking' = IF pc'[r] = "done" THEN NoRanking ELSE ranking
    /\ log' = ""
    /\ created' = IF pc'[r] = "done" THEN {} ELSE created
    /\ UNCHANGED <<keyboard, user_data>>
    /\ UNCHANGED <<catVars, dVars, cVars>>
    /\ on_loop' = {"open"}

\* main.py:335-360: send_video returns or raises
SendDone(r) ==
    /\ pc[r] = "sending"
    /\ \E ok \in BOOLEAN :
        IF ok
        THEN /\ disk' = RemoveFile(disk, download_path[1])
             /\ Finish(r, "sent")
        ELSE /\ Finish(r, "send_failed")
             /\ UNCHANGED disk
    /\ UNCHANGED <<cpc, input_path, max_size_bytes, duration, target_bitrate,
                   encodes, compressed, probes, returncode, compressed_size>>
    /\ log' = ""
    /\ created' = {}
    /\ ranking' = IF pc'[r] = "done" THEN NoRanking ELSE ranking
    /\ UNCHANGED <<keyboard, user_data>>
    /\ UNCHANGED <<catVars, dVars>>
    /\ on_loop' = IF outcome'[r] = "sent" THEN {"remove"} ELSE {}

\* no message has arrived
PipelineIdle ==
    /\ pc = [r \in Reqs |-> "new"]
    /\ outcome = [r \in Reqs |-> ""]
    /\ keyboard = [r \in Reqs |-> <<>>]
    /\ user_data = NoFiles
    /\ url = NoText
    /\ format_sel = None
    /\ download_path = None
    /\ sent = None
    /\ ranking = NoRanking

CatIdle ==
    /\ raw = <<>>
    /\ info = NoInfo
    /\ video_formats = <<>>
    /\ cat_pc = "idle"
    /\ valid_formats = <<>>

\* nothing logged, nothing written
QuietStart ==
    /\ log = ""
    /\ created = {}
    /\ on_loop = {}

\* download_video is not being called on its own
DownloadIdle ==
    /\ dpc = "idle"
    /\ filename = <<"", "">>
    /\ found = None

\* main.py:27-30: a fresh temporary directory
Init ==
    /\ CatIdle
    /\ DownloadIdle
    /\ disk = NoFiles
    /\ CompressIdle
    /\ PipelineIdle
    /\ QuietStart

Next ==
    \/ \E r \in Reqs : SendUrl(r)
    \/ \E r \in Reqs : ExtractDone(r)
    \/ \E r \in Reqs : \E b \in 1..(MaxButtons + 1) : PressButton(r, b)
    \/ \E r \in Reqs : DownloadDone(r)
    \/ CompressNext(PipelineProbeResults)
    \/ \E r \in Reqs : CompressReturned(r)
    \/ \E r \in Reqs : AnnounceDone(r)
    \/ \E r \in Reqs : SendDone(r)

Spec == Init /\ [][Next]_vars

\* every awaited call returns: the extraction, the download, the probe and
\* the encodes on the worker pool (video_downloader.py:50, 126, 195, 253,
\* 294) and the calls of the chat API (main.py:326, 335).  Nothing makes a
\* user send a message or press a button.
CallsReturn ==
    /\ WF_vars(\E r \in Reqs : ExtractDone(r))
    /\ WF_vars(\E r \in Reqs : DownloadDone(r))
    /\ WF_vars(CompressNext(PipelineProbeResults))
    /\ WF_vars(\E r \in Reqs : CompressReturned(r))
    /\ WF_vars(\E r \in Reqs : AnnounceDone(r))
    /\ WF_vars(\E r \in Reqs : SendDone(r))

FairSpec == Spec /\ CallsReturn

(***************************************************************************)
(* Properties of the handlers, checked under Spec.                         *)
(***************************************************************************)
\* C1: the file handed to send_video is at or under the delivery ceiling of
\* 50 MB: whenever a handler is in the send step, the file it opened has at
\* most 50 * 1024 * 1024 bytes, and that is the size of the file at its
\* download_path, which is the download itself or an encode output.
C1_SentFileUnderCeiling ==
    \A r \in Reqs :
        pc[r] = "sending" =>
            /\ sent # None
            /\ sent[1] <= 50 * 1024 * 1024
            /\ download_path # None
            /\ Exists(disk, download_path[1])
            /\ GetSize(disk, download_path[1]) = sent[1]

\* C1's case: an oversized download was compressed and the encode output,
\* exactly as large as the ceiling, is being sent
C1_CompressedFileSent ==
    \E r \in Reqs :
        /\ pc[r] = "sending"
        /\ download_path # None
        /\ download_path[1][2] = "_compressed.mp4"
        /\ sent = Some(50 * 1024 * 1024)
        /\ \E p \in DOMAIN disk : disk[p] > 50 * 1024 * 1024

\* C10: once handle_url has ranked a non-empty list: with more than one
\* format of height >= 360 the message waits for a choice, its buttons are
\* the first (at most five) good formats in ranking order followed by
\* "best", and no download has been started; with at most one such format
\* no buttons are shown and the download was started directly with "best".
C10_SelectionIffSeveralGood ==
    ranking.n > 0 =>
        LET r == ranking.req
            g == ranking.good
            shown == IF Len(g) < 5 THEN Len(g) ELSE 5
        IN  IF Len(g) > 1
            THEN /\ pc[r] = "choice"
                 /\ format_sel = None
                 /\ Len(keyboard[r]) = shown + 1
                 /\ \A i \in 1..shown :
                        keyboard[r][i] = <<"download">> \o g[i] \o <<MessageId(r)>>
                 /\ keyboard[r][shown + 1] = <<"download", "best", MessageId(r)>>
            ELSE /\ keyboard[r] = <<>>
                 /\ pc[r] \in {"downloading", "compressing", "announcing",
                               "sending", "done"}
                 /\ pc[r] # "done" => format_sel = <<"best">>
                 /\ outcome[r] \notin {"select_quality", "processing_failed",
                                       "no_info", "no_formats"}

\* C11: the ceiling is inclusive at every check: compress_video is invoked
\* only for a download larger than 50 MB, so a download of exactly the
\* ceiling goes to the send step as it is; and an encode output measured at
\* exactly max_size_bytes, at stage 1 or stage 2, is the path returned.
C11_CeilingInclusive ==
    /\ \A r \in Reqs :
          pc[r] = "compressing" =>
              /\ Exists(disk, input_path)
              /\ GetSize(disk, input_path) > 50 * 1024 * 1024
              /\ max_size_bytes = 50 * 1024 * 1024
    /\ \A r \in Reqs :
          (pc[r] = "announcing" /\ download_path[1][2] \in {".mp4", ".mkv", ".webm"}) =>
              GetSize(disk, download_path[1]) <= 50 * 1024 * 1024
    /\ \A i \in DOMAIN compressed_size :
          compressed_size[i] = Some(max_size_bytes) =>
              /\ i = Len(compressed_size)
              /\ cpc = "ret"
              /\ compressed =
                    Some(<<input_path[1],
                           IF i = 1 THEN "_compressed.mp4"
                           ELSE "_compressed_aggressive.mp4">>)

\* C11's case: a download of exactly 50 MB is in the send step, uncompressed
C11_DownloadAtCeilingSent ==
    \E r \in Reqs :
        /\ pc[r] = "sending"
        /\ download_path[1][2] = ".mp4"
        /\ sent = Some(50 * 1024 * 1024)
        /\ created = {download_path[1]}

WaitingOnPool(r) ==
    \/ pc[r] \in {"extracting", "downloading"}
    \/ pc[r] = "compressing" /\ cpc \in {"probe", "encode1", "encode2"}

\* C13: the four blocking operations run on the worker pool and are
\* awaited, so that while the handler of one message waits for one of them
\* a handler step of another message can be executed: the next message can
\* be taken up and a shown button can be pressed.
C13_OtherHandlerRunsMeanwhile ==
    \A r, q \in Reqs :
        (r # q /\ WaitingOnPool(r)) =>
            /\ (pc[q] = "new" /\ \A p \in Reqs : p < q => pc[p] # "new") =>
                  ENABLED SendUrl(q)
            /\ pc[q] = "choice" => ENABLED PressButton(q, 1)

\* C14: the core functions never raise to their caller: when one of them
\* has logged an error it has returned its failure value, the handler has
\* shown the text for that failure value (not the text of its own except
\* clause), and the bot goes on to take up the next message.
C14_FailuresBecomeReturnValues ==
    /\ cpc = "ret" => (log # "" <=> compressed = None)
    /\ log = "extract_error" =>
          /\ NoHandlerRunning
          /\ \E r \in Reqs : pc[r] = "done" /\ outcome[r] = "no_info"
          /\ \A r \in Reqs : outcome[r] # "processing"
    /\ log \in {"download_error", "file_not_found"} =>
          /\ NoHandlerRunning
          /\ \E r \in Reqs : pc[r] = "done" /\ outcome[r] = "download_failed"
          /\ \A r \in Reqs : outcome[r] # "downloading"
    /\ \A r \in Reqs :
          (pc[r] = "compressing" /\ cpc = "ret" /\ compressed = None) =>
              ENABLED CompressReturned(r)
    /\ \A q \in Reqs :
          (NoHandlerRunning /\ pc[q] = "new" /\ \A p \in Reqs : p < q => pc[p] # "new") =>
              ENABLED SendUrl(q)

\* C14's case: the extraction failed inside get_video_info for the first
\* message, the second message was taken up and its download has failed
\* inside download_video
C14_ServedAfterFailure ==
    /\ NumReq >= 2
    /\ outcome[1] = "no_info"
    /\ outcome[2] = "download_failed"
    /\ log = "download_error"

\* C16: when a request ends with the video delivered, no file that its run
\* has written is left in the working directory, with or without
\* compression.
C16_NothingLeftAfterDelivery ==
    [][\A r \in Reqs :
          (pc[r] = "sending" /\ pc'[r] = "done" /\ outcome'[r] = "sent") =>
              \A p \in created : ~Exists(disk', p)]_vars

\* C20: in download_and_send_video a download over the ceiling is never
\* sent as it is: compress_video is called on it with the 50 MB ceiling;
\* when compress_video returns nothing the handler ends with the
\* compression-failed text and nothing is handed to send_video; when it
\* returns a path, that path (an encode output, not the download) replaces
\* download_path, and the file handed to send_video is the one at
\* download_path.
C20_OversizedGoesThroughCompression ==
    /\ [](\A r \in Reqs :
            /\ pc[r] = "compressing" =>
                  /\ max_size_bytes = 50 * 1024 * 1024
                  /\ download_path = Some(input_path)
                  /\ sent = None
                  /\ Exists(disk, input_path) =>
                        GetSize(disk, input_path) > 50 * 1024 * 1024
            /\ outcome[r] = "compression_failed" => pc[r] = "done"
            /\ pc[r] = "sending" => sent = Some(GetSize(disk, download_path[1])))
    /\ [][\A r \in Reqs :
            /\ (pc[r] = "downloading" /\ pc'[r] = "announcing") =>
                  GetSize(disk', download_path'[1]) <= 50 * 1024 * 1024
            /\ (pc[r] = "downloading" /\ pc'[r] = "compressing") =>
                  /\ cpc' = "call"
                  /\ GetSize(disk', input_path') > 50 * 1024 * 1024
            /\ (pc[r] = "compressing" /\ cpc = "ret" /\ compressed = None
                  /\ pc'[r] # "compressing") =>
                  /\ pc'[r] = "done"
                  /\ outcome'[r] = "compression_failed"
                  /\ sent' = None
            /\ (pc[r] = "compressing" /\ pc'[r] = "announcing") =>
                  /\ compressed # None
                  /\ download_path' = compressed
                  /\ compressed[1] # input_path
                  /\ compressed[1] \in {<<input_path[1], "_compressed.mp4">>,
                                        <<input_path[1], "_compressed_aggressive.mp4">>}
            /\ (pc[r] = "compressing" /\ pc'[r] = "done") =>
                  outcome'[r] = "compression_failed"]_vars

\* C20's case: the stage-2 output of an oversized download is being sent
\* while the download is still on disk
C20_AggressiveOutputSent ==
    \E r \in Reqs :
        /\ pc[r] = "sending"
        /\ download_path = Some(<<"a", "_compressed_aggressive.mp4">>)
        /\ \E p \in DOMAIN disk : p[2] \notin {"_compressed.mp4", "_compressed_aggressive.mp4"}
                                    /\ disk[p] > MAX_SIZE
        /\ sent # None /\ sent[1] <= MAX_SIZE

\* C20's other case: compress_video returned nothing and the handler ended
C20_CompressionRejected ==
    \E r \in Reqs : pc[r] = "done" /\ outcome[r] = "compression_failed"

\* C22: when no format is left after the filters (handle_url's
\* video_formats is empty), handle_url shows the download-not-available
\* text and returns: the message goes from the extraction straight to its
\* end, which it never leaves, so download_video and compress_video are
\* not called for it; a message that goes on to the choice or the download
\* has at least one format.
C22_NoFormatsEndsRequest ==
    /\ [](\A r \in Reqs :
            (ranking.req = r /\ ranking.n = 0) =>
                /\ pc[r] = "done"
                /\ outcome[r] = "no_formats"
                /\ format_sel = None
                /\ download_path = None
                /\ cpc = "idle")
    /\ [][\A r \in Reqs :
            /\ (pc[r] = "extracting" /\ pc'[r] \in {"choice", "downloading"}) =>
                  (ranking'.req = r /\ ranking'.n >= 1)
            /\ (pc[r] # "done" /\ outcome'[r] = "no_formats") =>
                  /\ pc[r] = "extracting"
                  /\ pc'[r] = "done"
                  /\ ranking' = [req |-> r, n |-> 0, good |-> <<>>]
            /\ pc[r] = "done" => (pc'[r] = "done" /\ outcome'[r] = outcome[r])]_vars

\* C22's case: a message whose URL had no format left has ended
C22_NoFormatLeft ==
    \E r \in Reqs :
        /\ ranking = [req |-> r, n |-> 0, good |-> <<>>]
        /\ pc[r] = "done"
        /\ outcome[r] = "no_formats"

\* texts that report a failure to the user
FailureTexts ==
    {"invalid_url", "no_info", "no_formats", "processing_failed",
     "invalid_selection", "session_expired", "download_failed",
     "compression_failed", "send_failed"}

\* C24 as stated: when every awaited call returns, a message whose
\* handling has started reaches its end, with the video delivered or a
\* failure shown; it stays in no intermediate stage for ever.
C24_StartedRequestEnds ==
    \A r \in Reqs :
        (pc[r] # "new") ~>
            (pc[r] = "done" /\ outcome[r] \in FailureTexts \cup {"sent"})

\* C24, amended: when every awaited call returns, every running handler
\* returns: a message under extraction reaches its end or the quality
\* choice, and a message whose download has started reaches its end, with
\* the video delivered or a failure shown.  A message at the quality choice
\* stays there until a button is pressed.
C24_RunningHandlerReturns ==
    \A r \in Reqs :
        /\ (pc[r] = "extracting") ~>
              (\/ pc[r] = "choice" /\ outcome[r] = "select_quality"
               \/ pc[r] = "done" /\ outcome[r] \in FailureTexts \cup {"sent"})
        /\ (pc[r] \in {"downloading", "compressing", "announcing", "sending"}) ~>
              (pc[r] = "done" /\ outcome[r] \in FailureTexts \cup {"sent"})

\* C24's cases: one message has been delivered after a compression and
\* another waits at the quality choice
C24_OneDeliveredOneWaiting ==
    \E r, q \in Reqs :
        /\ pc[r] = "done" /\ outcome[r] = "sent"
        /\ pc[q] = "choice" /\ outcome[q] = "select_quality"
        /\ \E p \in DOMAIN disk : disk[p] > MAX_SIZE

\* C25: no step removes or changes an entry of context.user_data: a URL
\* stored under the key of a message id stays there, also after the
\* download chosen for it has succeeded or failed.
C25_UrlStoreNeverShrinks ==
    [][\A k \in DOMAIN user_data :
          k \in DOMAIN user_data' /\ user_data'[k] = user_data[k]]_vars

\* C25's case: the download chosen with a button has been delivered and
\* the URL of its message is still stored
C25_StoredAfterDelivery ==
    \E r \in Reqs :
        /\ pc[r] = "done"
        /\ outcome[r] = "sent"
        /\ <<"url", ToString(r)>> \in DOMAIN user_data

\* C26: no step of the pipeline touches the filesystem on the event-loop
\* thread: the checks that a downloaded or encoded file exists, the
\* measuring of its size, the removal of a rejected encode output and the
\* opening of the file to send are all made inside run_in_executor.
C26_FilesystemOffEventLoop == on_loop = {}

\* C27: callback data round-trips: pressing a quality button makes
\* handle_quality_selection start the download with the format_id that
\* handle_url put into that button (what stands between "download_" and
\* the "_" before the message id) and with the URL stored for the message
\* that showed the button.
C27_ButtonStartsItsFormat ==
    [][\A r \in Reqs : \A b \in 1..(MaxButtons + 1) :
          PressButton(r, b) =>
              LET data == keyboard[r][b]
              IN  /\ pc'[r] = "downloading"
                  /\ format_sel' = SubSeq(data, 2, Len(data) - 1)
                  /\ url' = user_data[<<"url", ToString(r)>>]]_vars

(***************************************************************************)
(* compress_video called on its own, for several ceilings, on an input     *)
(* that is larger than the ceiling (or missing).                           *)
(***************************************************************************)
Ceilings == {1000000, 50000000, MAX_SIZE}
InputFile == <<"video", ".mp4">>

InitCompress ==
    /\ CatIdle
    /\ DownloadIdle
    /\ PipelineIdle
    /\ max_size_bytes \in Ceilings
    /\ input_path = InputFile
    /\ disk \in {NoFiles, WriteFile(NoFiles, InputFile, max_size_bytes + 1)}
    /\ cpc = "call"
    /\ duration = 0
    /\ target_bitrate = <<>>
    /\ encodes = 0
    /\ compressed = None
    /\ probes = 0
    /\ returncode = <<>>
    /\ compressed_size = <<>>
    /\ QuietStart

SpecCompress == InitCompress /\ [][CompressNext(ProbeResults)]_vars

(***************************************************************************)
(* Properties of compress_video, checked under SpecCompress.               *)
(***************************************************************************)
EncodeOutputs == {CompressedPath(input_path), AggressivePath(input_path)}

\* C2: whenever compress_video has returned, every encode output that is on
\* disk is the output the call returned (accepted); rejected outputs and
\* outputs of failed encodes are gone.
C2_OnlyAcceptedOutputOnDisk ==
    cpc = "ret" =>
        \A p \in EncodeOutputs : Exists(disk, p) => compressed = Some(p)

\* C3: one compress_video call invokes the encode tool at most twice, once
\* per stage; once the second encode has been started the call is in
\* stage 2 or has returned.
C3_AtMostTwoEncodes ==
    /\ encodes <= 2
    /\ cpc = "encode1" => encodes = 1
    /\ encodes = 2 => cpc \in {"encode2", "ret"}

C3_TwoStagesRun == cpc = "ret" /\ encodes = 2

\* C4: in a call that reaches stage 2, the stage-2 target bitrate is
\* strictly less than the stage-1 target bitrate.
C4_Stage2BelowStage1 ==
    Len(target_bitrate) = 2 => target_bitrate[2] < target_bitrate[1]

C4_Stage2Reached == cpc = "encode2" /\ Len(target_bitrate) = 2

\* C5: a stage-1 target below 100 kbps makes compress_video return failure
\* at once, with no encode invoked and no output file created; 4000 s with
\* a ceiling of 50,000,000 bytes gives 80 kbps.
C5_FloorRejectsWithoutEncode ==
    /\ (Len(target_bitrate) >= 1 /\ target_bitrate[1] < 100) =>
          /\ cpc = "ret"
          /\ compressed = None
          /\ encodes = 0
          /\ \A p \in EncodeOutputs : ~Exists(disk, p)
    /\ (max_size_bytes = 50000000 /\ duration = 4000000) =>
          target_bitrate = <<80>>

C5_Rejected80 ==
    /\ max_size_bytes = 50000000
    /\ duration = 4000000
    /\ target_bitrate = <<80>>
    /\ cpc = "ret"
    /\ compressed = None

\* C28: in a compress_video call stage 2 is never rejected for its
\* bitrate: whenever the stage-2 target has been computed it is at least
\* 50 kbps (the stage-1 target that let the call get there was at least
\* 100 kbps), and the "cannot compress further" return is never taken.
C28_Stage2FloorNeverRejects ==
    /\ log # "cannot_compress_further"
    /\ Len(target_bitrate) = 2 =>
          /\ target_bitrate[1] >= 100
          /\ target_bitrate[2] >= 50
          /\ encodes = 2

\* C28's case: stage 2 is reached with the lowest stage-1 target that
\* passes, 100 kbps, and its own target is 75 kbps
C28_LowestStage2Target ==
    /\ cpc = "encode2"
    /\ target_bitrate = <<100, 75>>

\* C29: compress_video and _compress_aggressively leave their input file
\* alone: the two output paths differ from the input path and from each
\* other; no step removes the input or changes its size; while stage 2
\* encodes, the input is on disk and the stage-1 output is not, so stage 2
\* reads the input; and at every return of a call whose input existed,
\* accepted or rejected, the input is on disk with the size it had.
C29_InputLeftAlone ==
    /\ [](/\ <<input_path[1], "_compressed.mp4">> # input_path
          /\ <<input_path[1], "_compressed_aggressive.mp4">> # input_path
          /\ CompressedPath(input_path) # AggressivePath(input_path)
          /\ cpc = "encode2" =>
                /\ Exists(disk, input_path)
                /\ ~Exists(disk, CompressedPath(input_path))
          /\ (cpc = "ret" /\ log # "input_missing") =>
                /\ Exists(disk, input_path)
                /\ GetSize(disk, input_path) = max_size_bytes + 1)
    /\ [][Exists(disk, input_path) =>
             /\ Exists(disk', input_path)
             /\ GetSize(disk', input_path) = GetSize(disk, input_path)]_vars

\* C29's case: both encodes ran, both outputs were too large and removed,
\* the call returned failure and only the input is on disk
C29_OnlyInputLeft ==
    /\ cpc = "ret"
    /\ compressed = None
    /\ returncode = <<0, 0>>
    /\ DOMAIN disk = {input_path}
    /\ GetSize(disk, input_path) = max_size_bytes + 1

\* C15: the value a failing compress_video call returns carries the reason
\* of the failure (no duration, bitrate floor, failed encode, still too
\* large), so that the caller can tell the failure kinds apart from the
\* returned value alone.
C15_FailureCarriesReason ==
    (cpc = "ret" /\ log # "") =>
        \E i \in DOMAIN compressed : compressed[i] = log

\* C17: stage 2 is entered only after a stage-1 encode that exited with 0
\* and whose output existed and was measured larger than max_size_bytes; a
\* failed stage-1 encode ends the call with failure after one encode, and
\* a stage-1 output at or under max_size_bytes is returned after one encode.
C17_Stage2OnlyAfterOversizedStage1 ==
    /\ (Len(target_bitrate) = 2 \/ encodes = 2) =>
          /\ returncode[1] = 0
          /\ compressed_size[1] # None
          /\ compressed_size[1][1] > max_size_bytes
    /\ (Len(returncode) >= 1 /\ (returncode[1] # 0 \/ compressed_size[1] = None)) =>
          /\ cpc = "ret"
          /\ compressed = None
          /\ encodes = 1
          /\ Len(target_bitrate) = 1
    /\ (Len(compressed_size) >= 1 /\ compressed_size[1] # None
          /\ compressed_size[1][1] <= max_size_bytes) =>
          /\ cpc = "ret"
          /\ compressed = Some(<<input_path[1], "_compressed.mp4">>)
          /\ encodes = 1
          /\ Len(target_bitrate) = 1

\* C17's case: the stage-2 encode is running after a stage-1 encode that
\* exited with 0 and left an output one byte over the ceiling
C17_Stage2AfterOversized ==
    /\ cpc = "encode2"
    /\ returncode = <<0>>
    /\ compressed_size = <<Some(max_size_bytes + 1)>>

\* C18: while the stage-2 encode runs the stage-1 output is not on disk;
\* and when the stage-2 encode has exited with 0 and its output was
\* measured at or under max_size_bytes, the call returns the stage-2 path,
\* that file exists and the stage-1 output does not.
C18_Stage1OutputGoneInStage2 ==
    /\ cpc = "encode2" => ~Exists(disk, <<input_path[1], "_compressed.mp4">>)
    /\ (cpc = "ret" /\ Len(returncode) = 2 /\ returncode[2] = 0
          /\ compressed_size[2] # None /\ compressed_size[2][1] <= max_size_bytes) =>
          /\ compressed = Some(<<input_path[1], "_compressed_aggressive.mp4">>)
          /\ Exists(disk, <<input_path[1], "_compressed_aggressive.mp4">>)
          /\ ~Exists(disk, <<input_path[1], "_compressed.mp4">>)

\* C18's case: the call has returned the stage-2 output
C18_Stage2OutputReturned ==
    /\ cpc = "ret"
    /\ returncode = <<0, 0>>
    /\ compressed = Some(AggressivePath(input_path))
    /\ DOMAIN disk = {input_path, AggressivePath(input_path)}

\* C19: when the duration probe fails, compress_video returns failure
\* having invoked the probe once and the encode tool never, and no encode
\* output has been created; the probe is never invoked twice in a call.
C19_ProbeFailureEndsCall ==
    /\ probes <= 1
    /\ cpc = "probe" => (probes = 1 /\ encodes = 0)
    /\ log = "no_duration" =>
          /\ cpc = "ret"
          /\ compressed = None
          /\ probes = 1
          /\ encodes = 0
          /\ returncode = <<>>
          /\ \A p \in EncodeOutputs : ~Exists(disk, p)

\* C19's case: the input exists, the probe has failed and the call has
\* returned
C19_ProbeFailed ==
    /\ cpc = "ret"
    /\ log = "no_duration"
    /\ Exists(disk, input_path)
    /\ target_bitrate = <<>>

\* b = floor(num / den) for den > 0
IsFloor(b, num, den) == b * den <= num /\ num < (b + 1) * den

\* C6: the stage-1 target is floor(max_size_bytes * 0.8 * 8 / duration / 1000)
\* and the stage-2 target floor(max_size_bytes * 0.6 * 8 / duration / 1000);
\* with the duration in milliseconds these are the floors of
\* max_size_bytes * 32 / (5 * ms) and max_size_bytes * 24 / (5 * ms).
\* 120 s with a ceiling of 50,000,000 bytes gives 2666 kbps.
C6_TargetsAreFloors ==
    /\ Len(target_bitrate) >= 1 =>
          IsFloor(target_bitrate[1], max_size_bytes * 32, 5 * duration)
    /\ Len(target_bitrate) = 2 =>
          IsFloor(target_bitrate[2], max_size_bytes * 24, 5 * duration)
    /\ (max_size_bytes = 50000000 /\ duration = 120000 /\ Len(target_bitrate) >= 1) =>
          target_bitrate[1] = 2666

C6_Example2666 ==
    /\ max_size_bytes = 50000000
    /\ duration = 120000
    /\ target_bitrate = <<2666, 2000>>

(***************************************************************************)
(* download_video called on its own, after the engine has returned: the    *)
(* engine has reported a file name and the directory holds some files.     *)
(***************************************************************************)
ResolveTails == {".mp4", ".mkv", ".webm", ".avi", ".mov", ".flv"}
ResolveFiles == { <<"a", t>> : t \in ResolveTails } \cup { <<"b", ".mp4">> }

InitResolve ==
    /\ CatIdle
    /\ CompressIdle
    /\ PipelineIdle
    /\ QuietStart
    /\ disk \in { [q \in S |-> 1] : S \in SUBSET ResolveFiles }
    /\ dpc = "call"
    /\ filename \in { <<"a", t>> : t \in ResolveTails }
    /\ found = None

\* video_downloader.py:128-140
DownloadReturn ==
    /\ dpc = "call"
    /\ found' = ResolveDownloaded(disk, filename)
    /\ log' = IF found' = None THEN "file_not_found" ELSE ""
    /\ dpc' = "ret"
    /\ UNCHANGED <<filename, created>>
    /\ UNCHANGED <<catVars, cVars, pVars>>
    /\ on_loop' = {"exists"}

SpecResolve == InitResolve /\ [][DownloadReturn]_vars

\* the first n extensions of download_video's list
FirstExts(n) == SubSeq(<<".mp4", ".mkv", ".webm", ".avi", ".mov">>, 1, n)

\* C21: download_video returns the reported path when that file exists;
\* otherwise the path with the reported base name and the first of .mp4,
\* .mkv, .webm, .avi, .mov (in that order) for which a file exists; and
\* None when there is no such file.
C21_ReportedElseFirstExisting ==
    dpc = "ret" =>
        LET base == filename[1]
            exts == FirstExts(5)
        IN  /\ Exists(disk, filename) => found = Some(filename)
            /\ ~Exists(disk, filename) =>
                 /\ \A i \in 1..5 :
                      (/\ Exists(disk, <<base, exts[i]>>)
                       /\ \A k \in 1..(i - 1) : ~Exists(disk, <<base, exts[k]>>))
                      => found = Some(<<base, exts[i]>>)
                 /\ (\A i \in 1..5 : ~Exists(disk, <<base, exts[i]>>)) => found = None

\* C21's case: the reported file is missing, the .mp4 one too, and two
\* later extensions of the list exist: the earlier of them was returned
C21_SecondOfTwoSkipped ==
    /\ dpc = "ret"
    /\ filename = <<"a", ".flv">>
    /\ DOMAIN disk = {<<"a", ".webm">>, <<"a", ".mov">>, <<"b", ".mp4">>}
    /\ found = Some(<<"a", ".webm">>)

(***************************************************************************)
(* The catalogue run: the engine reports a list, get_video_info filters    *)
(* it, handle_url ranks it.                                                *)
(***************************************************************************)
CatInit(lists) ==
    /\ raw \in lists
    /\ info = NoInfo
    /\ video_formats = <<>>
    /\ cat_pc = "extract"
    /\ valid_formats = <<>>
    /\ disk = NoFiles
    /\ DownloadIdle
    /\ CompressIdle
    /\ PipelineIdle
    /\ QuietStart

ExtractInfo ==
    /\ cat_pc = "extract"
    /\ info' = GetVideoInfo(raw)
    /\ cat_pc' = IF info'.ok THEN "rank" ELSE "failed"
    /\ log' = IF FilterRaises(raw) THEN "extract_error" ELSE ""
    /\ UNCHANGED <<raw, video_formats, valid_formats, created>>
    /\ UNCHANGED <<cVars, pVars, dVars>>
    /\ on_loop' = {}

RankFormats ==
    /\ cat_pc = "rank"
    /\ video_formats' = SortByHeightDesc(VideoFormats(info.formats))
    /\ cat_pc' = "ranked"
    /\ UNCHANGED <<raw, info, valid_formats>>
    /\ UNCHANGED <<cVars, pVars, gVars, dVars>>

CatNext == ExtractInfo \/ RankFormats

\* video_downloader.py:41-45 run on the list that get_video_info returned
FilterAgain ==
    /\ cat_pc = "rank"
    /\ IF FilterRaises(info.formats)
       THEN /\ cat_pc' = "failed_again"
            /\ log' = "extract_error"
            /\ UNCHANGED valid_formats
       ELSE /\ valid_formats' = FilterFormats(info.formats)
            /\ cat_pc' = "filtered_again"
            /\ log' = ""
    /\ UNCHANGED <<raw, info, video_formats, created>>
    /\ UNCHANGED <<cVars, pVars, dVars>>
    /\ on_loop' = {}

\* main.py:164-167 run on the list that get_video_info returned
HandleUrlFilter ==
    /\ cat_pc = "filtered_again"
    /\ video_formats' = VideoFormats(info.formats)
    /\ cat_pc' = "video_formats"
    /\ UNCHANGED <<raw, info, valid_formats>>
    /\ UNCHANGED <<cVars, pVars, gVars, dVars>>

RefilterNext == ExtractInfo \/ FilterAgain \/ HandleUrlFilter

SpecCatalog == CatInit(FilterLists(MaxRaw)) /\ [][CatNext]_vars
SpecRank == CatInit(RankLists(MaxRank)) /\ [][CatNext]_vars
SpecRefilter == CatInit(FilterLists(MaxRaw)) /\ [][RefilterNext]_vars

(***************************************************************************)
(* Properties of the catalogue, checked under SpecCatalog and SpecRank.    *)
(***************************************************************************)
Range(q) == { q[i] : i \in DOMAIN q }

HasIntHeight(f) == "height" \in DOMAIN f /\ f["height"] # None

AnyCaseUnavailable ==
    << {"u","U"}, {"n","N"}, {"a","A"}, {"v","V"}, {"a","A"}, {"i","I"},
       {"l","L"}, {"a","A"}, {"b","B"}, {"l","L"}, {"e","E"} >>

\* the note holds "unavailable" in some letter case
NotedUnavailable(f) ==
    /\ "format_note" \in DOMAIN f
    /\ \E k \in 0..(Len(f["format_note"]) - 11) :
          \A i \in 1..11 : f["format_note"][k + i] \in AnyCaseUnavailable[i]

\* the four checks that do not read the height
PassesOtherChecks(f) ==
    /\ f["vcodec"] # "none"
    /\ "url" \in DOMAIN f
    /\ ~NotedUnavailable(f)
    /\ ~("filesize" \in DOMAIN f /\ f["filesize"] = Some(0))

\* all five checks: the height is not strictly between 0 and 144
PassesFiveChecks(f) ==
    /\ PassesOtherChecks(f)
    /\ ~(HasIntHeight(f) /\ f["height"][1] > 0 /\ f["height"][1] < 144)

\* C7: for every raw list, once get_video_info has returned, it has
\* returned a list, and that list is the raw list without the formats that
\* fail one of the five checks (video codec "none", no url, a note with
\* "unavailable" in any letter case, a height strictly between 0 and 144,
\* a filesize of 0): every passing format is kept, in order.
C7_OutputIsThePassingFormats ==
    cat_pc # "extract" =>
        /\ info.ok
        /\ info.formats = SelectSeq(raw, PassesFiveChecks)

\* C8 as stated: once the filter has run, no format whose height is present
\* and below 144, a height of 0 included, is in its output.
C8_HeightBelow144Dropped ==
    cat_pc \in {"rank", "ranked"} =>
        \A i \in DOMAIN raw :
            (HasIntHeight(raw[i]) /\ raw[i]["height"][1] < 144) =>
                raw[i] \notin Range(info.formats)

\* C8, amended: every format whose height is present and strictly between 0
\* and 144 is dropped by the filter and is in no list it returns; a height
\* of 0 is not too low: a format of height 0 that passes the other four
\* checks is kept.
C8_HeightBetween0And144Dropped ==
    \A i \in DOMAIN raw :
        HasIntHeight(raw[i]) =>
            LET h == raw[i]["height"][1]
            IN  /\ (h > 0 /\ h < 144) =>
                      /\ IsFormatDownloadable(raw[i]) = "drop"
                      /\ raw[i] \notin Range(info.formats)
                /\ (h = 0 /\ PassesOtherChecks(raw[i])) =>
                      /\ IsFormatDownloadable(raw[i]) = "keep"
                      /\ (cat_pc \in {"rank", "ranked"} =>
                              raw[i] \in Range(info.formats))

\* C8's case: the filter has returned a list; it dropped a format of height
\* 143 that passes the other four checks and kept another format
C8_Height143Dropped ==
    /\ cat_pc = "rank"
    /\ info.formats # <<>>
    /\ \E i \in DOMAIN raw :
          /\ HasIntHeight(raw[i])
          /\ raw[i]["height"][1] = 143
          /\ PassesOtherChecks(raw[i])
          /\ raw[i] \notin Range(info.formats)

\* the height handle_url ranks by: 0 when the format has none
RankHeight(f) == IF "height" \in DOMAIN f THEN f["height"][1] ELSE 0

\* the position of a format in the raw list, by its format_id
RawIndex(f) == CHOOSE i \in DOMAIN raw : raw[i]["format_id"] = f["format_id"]

\* C9: the ranked list of handle_url holds exactly the video formats of the
\* filtered list, is non-increasing by height with a missing height counted
\* as 0, and formats of equal height are in the order of the input list.
C9_RankedByHeightStable ==
    cat_pc = "ranked" =>
        /\ Len(video_formats) = Len(VideoFormats(info.formats))
        /\ Range(video_formats) = Range(VideoFormats(info.formats))
        /\ \A i, j \in DOMAIN video_formats :
              i < j =>
                /\ RankHeight(video_formats[i]) >= RankHeight(video_formats[j])
                /\ RankHeight(video_formats[i]) = RankHeight(video_formats[j]) =>
                      RawIndex(video_formats[i]) < RawIndex(video_formats[j])

\* C9's case: a taller format came last in the input and is ranked first,
\* before two formats of equal height and one with no height
C9_RankedWithTies ==
    /\ cat_pc = "ranked"
    /\ Len(video_formats) = 4
    /\ RawIndex(video_formats[1]) = 4
    /\ RankHeight(video_formats[2]) = RankHeight(video_formats[3])
    /\ RankHeight(video_formats[2]) = 360
    /\ "height" \notin DOMAIN video_formats[4]

\* C23: the downloadable-format filter is idempotent: run on a list that
\* get_video_info returned, the filter loop raises nothing and returns that
\* list, with the same formats in the same order; and so does the filter
\* of handle_url (main.py:167) on that list.
C23_FilterIdempotent ==
    /\ cat_pc # "failed_again"
    /\ cat_pc \in {"filtered_again", "video_formats"} => valid_formats = info.formats
    /\ cat_pc = "video_formats" => video_formats = info.formats

\* C23's case: the first run of the filter dropped a format of a list of
\* three and kept two, and both filters have run on the two
C23_TwoKeptFilteredAgain ==
    /\ cat_pc = "video_formats"
    /\ Len(raw) = 3
    /\ Len(info.formats) = 2
    /\ Len(valid_formats) = 2
    /\ info.formats[1] # info.formats[2]

====
